---- MODULE Spec2Model ----
(***************************************************************************)
(* Charging-session report pipeline: three request handlers that walk the  *)
(* cursor-paginated sessions listing of the upstream API and (the enriched *)
(* ones) join charge points, locations, users, id-tags and EVSEs onto each *)
(* session.                                                                *)
(*                                                                         *)
(*   "basic"  src/unnamed/part_000  lines 6-92   sessions only             *)
(*   "v1"     src/api/ampecosessions.js          global EVSE listing v1.0  *)
(*   "v2"     src/unnamed/part_000  lines 97-399 three-tier EVSE fallback  *)
(*                                                                         *)
(* One behaviour is one invocation of one handler against one upstream.    *)
(* The upstream (what every URL answers) is fixed when the invocation      *)
(* starts and is held in the variable up; an action is the code that runs  *)
(* between two suspension points (await) of the handler.                   *)
(***************************************************************************)
EXTENDS Integers, Sequences, FiniteSets, Bags, TLC

(***************************************************************************)
(* JavaScript values.  A string is a sequence of tokens; the token " " is  *)
(* white space.  A number is an integer; Milli(m) is the number m / 1000.  *)
(***************************************************************************)
Null == [t |-> "null"]
Undef == [t |-> "undef"]
NaN == [t |-> "nan"]
Num(n) == [t |-> "num", v |-> n]
Milli(m) == [t |-> "milli", v |-> m]
Str(s) == [t |-> "str", v |-> s]
Obj(f) == [t |-> "obj", v |-> f]
Arr(a) == [t |-> "arr", v |-> a]
False == [t |-> "bool", v |-> FALSE]

\* a == null, a === undefined
IsNullish(a) == a.t \in {"null", "undef"}

\* a ?? b
Coalesce(a, b) == IF IsNullish(a) THEN b ELSE a

\* o?.f
Get(o, f) == IF o.t = "obj" /\ f \in DOMAIN o.v THEN o.v[f] ELSE Undef

\* Boolean(a)
Truthy(a) ==
  CASE a.t \in {"null", "undef", "nan"} -> FALSE
    [] a.t = "bool" -> a.v
    [] a.t \in {"num", "milli"} -> a.v # 0
    [] a.t = "str" -> Len(a.v) > 0
    [] OTHER -> TRUE

\* a || b
Or(a, b) == IF Truthy(a) THEN a ELSE b

\* a && b
And(a, b) == IF Truthy(a) THEN b ELSE a

\* Array.isArray(a) ? a : []
AsArray(a) == IF a.t = "arr" THEN a.v ELSE <<>>

\* { ...a, ...b }
Spread(a, b) ==
  [f \in DOMAIN a \cup DOMAIN b |-> IF f \in DOMAIN b THEN b[f] ELSE a[f]]

Digits == <<"0", "1", "2", "3", "4", "5", "6", "7", "8", "9">>

RECURSIVE NatJsString(_)
NatJsString(n) ==
  IF n < 10 THEN <<Digits[n + 1]>>
  ELSE NatJsString(n \div 10) \o <<Digits[(n % 10) + 1]>>

\* String(a)
JsString(a) ==
  CASE a.t = "str" -> a.v
    [] a.t = "num" -> IF a.v < 0 THEN <<"-">> \o NatJsString(-a.v) ELSE NatJsString(a.v)
    [] a.t = "null" -> <<"null">>
    [] a.t = "undef" -> <<"undefined">>
    [] a.t = "nan" -> <<"NaN">>
    [] OTHER -> <<"[object Object]">>

IsSpace(c) == c = " "

RECURSIVE TrimStart(_)
TrimStart(s) ==
  IF s # <<>> /\ IsSpace(Head(s)) THEN TrimStart(Tail(s)) ELSE s

RECURSIVE TrimEnd(_)
TrimEnd(s) ==
  IF s # <<>> /\ IsSpace(s[Len(s)]) THEN TrimEnd(SubSeq(s, 1, Len(s) - 1)) ELSE s

\* String.prototype.trim
Trim(s) == TrimEnd(TrimStart(s))

DigitValue(c) == CHOOSE d \in 0..9 : Digits[d + 1] = c

RECURSIVE ParseDigits(_, _)
ParseDigits(s, acc) ==
  IF s = <<>> THEN acc ELSE ParseDigits(Tail(s), 10 * acc + DigitValue(Head(s)))

IsDigits(s) == \A i \in 1..Len(s) : \E d \in 1..10 : Digits[d] = s[i]

\* Number(a)
ToNumber(a) ==
  CASE a.t \in {"num", "milli"} -> a
    [] a.t = "null" -> Num(0)
    [] a.t = "str" ->
         LET s == Trim(a.v) IN
           IF s = <<>> THEN Num(0)
           ELSE IF IsDigits(s) THEN Num(ParseDigits(s, 0))
           ELSE IF Head(s) = "-" /\ Len(s) > 1 /\ IsDigits(Tail(s))
                THEN Num(-ParseDigits(Tail(s), 0))
           ELSE NaN
    [] OTHER -> NaN

\* Number.isFinite(a)
IsFinite(a) == a.t \in {"num", "milli"}

RECURSIVE SeqToSetOf(_)
SeqToSetOf(s) == IF s = <<>> THEN {} ELSE {Head(s)} \cup SeqToSetOf(Tail(s))

\* Array.from(new Set(a)): first occurrences, in order
RECURSIVE Distinct(_)
Distinct(a) ==
  IF a = <<>> THEN <<>>
  ELSE LET r == Distinct(SubSeq(a, 1, Len(a) - 1))
           x == a[Len(a)]
       IN IF x \in SeqToSetOf(r) THEN r ELSE Append(r, x)

\* a.filter(Boolean).join(' ')
RECURSIVE JoinTruthy(_)
JoinTruthy(a) ==
  IF a = <<>> THEN <<>>
  ELSE IF ~Truthy(Head(a)) THEN JoinTruthy(Tail(a))
  ELSE LET rest == JoinTruthy(Tail(a))
       IN IF \E i \in 1..Len(Tail(a)) : Truthy(Tail(a)[i])
          THEN JsString(Head(a)) \o <<" ">> \o rest
          ELSE JsString(Head(a))


\* Map: get, has, set
EmptyMap == [k \in {} |-> Null]
MapGet(m, k) == IF k \in DOMAIN m THEN m[k] ELSE Undef
MapHas(m, k) == k \in DOMAIN m
MapSet(m, k, x) == [j \in DOMAIN m \cup {k} |-> IF j = k THEN x ELSE m[j]]

\* the number m / 1000
Thousandths(m) == IF m % 1000 = 0 THEN Num(m \div 1000) ELSE Milli(m)

\* Number((x).toFixed(3)) of x = m / 1000000: nearest thousandth
RoundThousandths(m) == Thousandths((m + 500) \div 1000)

(***************************************************************************)
(* Session Collector                                                       *)
(***************************************************************************)
\* `${Date.now()}-${Math.random()}`: a key no identifier and no earlier
\* generated key equals (one more key is in seen after each use)
FreshKey(seen0) == <<"generated">> \o NatJsString(Cardinality(seen0))

\* String(s.id ?? `${Date.now()}-${Math.random()}`)
SessionKey(s, seen0) ==
  IF IsNullish(Get(s, "id")) THEN FreshKey(seen0) ELSE JsString(Get(s, "id"))

\* a collector that never recognises a key
NeverSeen(sid, seen0) == FALSE

\* seen.has(sid)
AlreadySeen(sid, seen0) == sid \in seen0

\* a resolution that prefers the authorization block
AuthorizationFirst(s) ==
  LET topUser == ToNumber(Get(s, "userId"))
      authUser == ToNumber(Get(Get(s, "authorization"), "userId"))
  IN IF IsFinite(authUser) /\ authUser.v > 0 THEN authUser
     ELSE IF IsFinite(topUser) /\ topUser.v > 0 THEN topUser
     ELSE Num(0)

\* resolvedUserId
ResolvedUserId(s) ==
  LET topUser == ToNumber(Get(s, "userId"))
      authUser == ToNumber(Get(Get(s, "authorization"), "userId"))
  IN IF IsFinite(topUser) /\ topUser.v > 0 THEN topUser
     ELSE IF IsFinite(authUser) /\ authUser.v > 0 THEN authUser
     ELSE Num(0)

\* resolvedIdTag
ResolvedIdTag(s) ==
  Coalesce(Get(s, "idTag"),
           Coalesce(Get(Get(s, "authorization"), "rfidTagUid"), Null))

\* a conversion that takes a top-level energy of 0 for an absent one
KWhSkipsZero(s) ==
  LET wh == ToNumber(Or(Get(s, "energy"),
                       Or(Get(Get(s, "energyConsumption"), "total"), Num(0))))
  IN CASE wh.t = "num" -> Thousandths(wh.v)
       [] wh.t = "milli" -> RoundThousandths(wh.v)
       [] OTHER -> NaN

\* Number((wh / 1000).toFixed(3))
KWh(s) ==
  LET wh == ToNumber(Coalesce(Get(s, "energy"),
                       Coalesce(Get(Get(s, "energyConsumption"), "total"), Num(0))))
  IN CASE wh.t = "num" -> Thousandths(wh.v)
       [] wh.t = "milli" -> RoundThousandths(wh.v)
       [] OTHER -> NaN

\* the object pushed onto sessions
NormalizeSession(s) ==
  Obj(Spread(s.v,
      [userIdRaw |-> Coalesce(Get(s, "userId"), Null),
       userId |-> ResolvedUserId(s),
       idTagRaw |-> Coalesce(Get(s, "idTag"), Null),
       idTag |-> ResolvedIdTag(s),
       kWh |-> KWh(s)]))

\* what the handler keeps of a record: the basic handler pushes it as it is
Collected(variant, s) == IF variant = "basic" THEN s ELSE NormalizeSession(s)

\* for (const s of data) { ... }
RECURSIVE CollectPage(_, _, _, _)
CollectPage(variant, data, sessions0, seen0) ==
  IF data = <<>> THEN [sessions |-> sessions0, seen |-> seen0]
  ELSE LET s == Head(data)
           sid == SessionKey(s, seen0)
       IN IF AlreadySeen(sid, seen0)
          THEN CollectPage(variant, Tail(data), sessions0, seen0)
          ELSE CollectPage(variant, Tail(data),
                           Append(sessions0, Collected(variant, s)),
                           seen0 \cup {sid})

\* page?.data, page?.links?.next || null
PageData(body) == AsArray(Get(body, "data"))
PageNext(body) == Or(Get(Get(body, "links"), "next"), Null)

(***************************************************************************)
(* Charge-point and location listings                                      *)
(***************************************************************************)
\* sessions.map(s => s[f]).filter(v => v != null), as a Set (insertion order)
RECURSIVE FieldValues(_, _)
FieldValues(a, f) ==
  IF a = <<>> THEN <<>>
  ELSE LET x == Get(Head(a), f)
       IN IF IsNullish(x) THEN FieldValues(Tail(a), f)
          ELSE <<x>> \o FieldValues(Tail(a), f)

WantedCpIds(sessions0) == SeqToSetOf(FieldValues(sessions0, "chargePointId"))

\* the embedded evses of one charge point, indexed unless already present
RECURSIVE IndexEmbedded(_, _)
IndexEmbedded(list, evseMap0) ==
  IF list = <<>> THEN evseMap0
  ELSE LET evse == Head(list)
           evseId == Coalesce(Get(evse, "id"), Coalesce(Get(evse, "evseId"), Null))
       IN IndexEmbedded(Tail(list),
            IF ~IsNullish(evseId) /\ ~MapHas(evseMap0, evseId)
            THEN MapSet(evseMap0, evseId, evse) ELSE evseMap0)

\* the embedded list a handler indexes: only the three-tier handler does
EmbeddedEvses(variant, cp) ==
  IF variant = "v2" THEN AsArray(Get(cp, "evses")) ELSE <<>>

\* for (const cp of cps) { ... }
RECURSIVE CollectCps(_, _, _, _, _)
CollectCps(variant, cps, cpMap0, missingCp0, evseMap0) ==
  IF cps = <<>> THEN [cpMap |-> cpMap0, missingCp |-> missingCp0, evseMap |-> evseMap0]
  ELSE LET cp == Head(cps)
           id == Coalesce(Get(cp, "id"), Coalesce(Get(cp, "chargePointId"), Null))
       IN IF ~IsNullish(id) /\ id \in missingCp0
          THEN CollectCps(variant, Tail(cps), MapSet(cpMap0, id, cp),
                          missingCp0 \ {id},
                          IndexEmbedded(EmbeddedEvses(variant, cp), evseMap0))
          ELSE CollectCps(variant, Tail(cps), cpMap0, missingCp0, evseMap0)

\* Array.from(cpMap.values()).map(cp => cp?.locationId).filter(v => v != null)
WantedLocIds(cpMap0) ==
  {Get(cpMap0[k], "locationId") : k \in DOMAIN cpMap0} \ {Null, Undef}

\* for (const loc of locs) { ... }
RECURSIVE CollectLocs(_, _, _)
CollectLocs(locs, locMap0, missingLocs0) ==
  IF locs = <<>> THEN [locMap |-> locMap0, missingLocs |-> missingLocs0]
  ELSE LET loc == Head(locs)
           id == Get(loc, "id")
       IN IF ~IsNullish(id) /\ id \in missingLocs0
          THEN CollectLocs(Tail(locs), MapSet(locMap0, id, loc), missingLocs0 \ {id})
          ELSE CollectLocs(Tail(locs), locMap0, missingLocs0)

\* a ?? b ?? ... ?? null over the fields fs of o
RECURSIVE FirstOf(_, _)
FirstOf(o, fs) ==
  IF fs = <<>> THEN Null ELSE Coalesce(Get(o, Head(fs)), FirstOf(o, Tail(fs)))

extractCpFields(cp) ==
  [chargePointName |-> FirstOf(cp, <<"name", "title", "reference", "code">>),
   locationId |-> Coalesce(Get(cp, "locationId"), Null)]

extractLocationFields(loc) ==
  LET address == Coalesce(Get(loc, "address"), Coalesce(Get(loc, "siteAddress"),
                   Coalesce(Get(Get(loc, "location"), "address"), Null)))
      geo == Coalesce(Get(loc, "geoposition"), Coalesce(Get(loc, "geo"),
                   Coalesce(Get(Get(loc, "location"), "geoposition"), Obj(EmptyMap))))
  IN [locationName |-> FirstOf(loc, <<"name", "title">>),
      addressLine1 |-> FirstOf(address, <<"line1", "addressLine1", "street", "line">>),
      city |-> FirstOf(address, <<"city", "town", "locality">>),
      country |-> FirstOf(address, <<"country", "countryCode">>),
      latitude |-> FirstOf(geo, <<"latitude", "lat">>),
      longitude |-> FirstOf(geo, <<"longitude", "lng">>)]

(***************************************************************************)
(* Identity resolver                                                       *)
(***************************************************************************)
\* new Set(sessions.map(s => s.userId).filter(n => Number.isFinite(n) && n > 0))
RECURSIVE PositiveUserIds(_)
PositiveUserIds(a) ==
  IF a = <<>> THEN <<>>
  ELSE LET n == Get(Head(a), "userId")
       IN IF IsFinite(n) /\ n.v > 0 THEN <<n>> \o PositiveUserIds(Tail(a))
          ELSE PositiveUserIds(Tail(a))

UserIds(sessions0) == Distinct(PositiveUserIds(sessions0))

\* (!s.idTagLabel || String(s.idTagLabel).trim() === '') && s.idTag
NeedsTagLookup(s) ==
  /\ \/ ~Truthy(Get(s, "idTagLabel"))
     \/ Trim(JsString(Get(s, "idTagLabel"))) = <<>>
  /\ Truthy(Get(s, "idTag"))

RECURSIVE TagsOf(_)
TagsOf(a) ==
  IF a = <<>> THEN <<>>
  ELSE IF NeedsTagLookup(Head(a)) THEN <<Get(Head(a), "idTag")>> \o TagsOf(Tail(a))
  ELSE TagsOf(Tail(a))

IdTagsNeedingLookup(sessions0) == Distinct(TagsOf(sessions0))

\* the entry fetchUser stores for a user payload
UserEntry(payload) ==
  LET u == Coalesce(Get(payload, "data"), payload)
      first == Coalesce(Get(u, "firstName"), Coalesce(Get(u, "firstname"), Null))
      last == Coalesce(Get(u, "lastName"), Coalesce(Get(u, "lastname"), Null))
      joined == Str(JoinTruthy(<<first, last>>))
  IN Obj([firstName |-> first,
          lastName |-> last,
          email |-> Coalesce(Get(u, "email"), Null),
          name |-> Coalesce(Get(u, "name"), Or(joined, Null))])

\* row?.userId ?? row?.user?.id ?? null of the first row of an id-tag page
TagUserId(payload) ==
  LET rows == Get(payload, "data")
      row == IF rows.t = "arr"
             THEN (IF rows.v = <<>> THEN Undef ELSE Head(rows.v))
             ELSE Null
  IN Coalesce(Get(row, "userId"), Coalesce(Get(Get(row, "user"), "id"), Null))

\* tagToUserId is kept as the sequence of its entries, in insertion order
TagHas(tagMap, tag) == \E i \in 1..Len(tagMap) : tagMap[i].k = tag
TagGet(tagMap, tag) ==
  IF TagHas(tagMap, tag)
  THEN tagMap[CHOOSE i \in 1..Len(tagMap) : tagMap[i].k = tag].x
  ELSE Undef
TagSet(tagMap, tag, uId) ==
  IF TagHas(tagMap, tag)
  THEN [i \in 1..Len(tagMap) |->
          IF tagMap[i].k = tag THEN [k |-> tag, x |-> uId] ELSE tagMap[i]]
  ELSE Append(tagMap, [k |-> tag, x |-> uId])

\* Array.from(tagToUserId.values()).filter(uId => !userMap.has(uId))
RECURSIVE ExtraUserIds(_, _)
ExtraUserIds(tagMap, userMap0) ==
  IF tagMap = <<>> THEN <<>>
  ELSE IF MapHas(userMap0, Head(tagMap).x) THEN ExtraUserIds(Tail(tagMap), userMap0)
  ELSE <<Head(tagMap).x>> \o ExtraUserIds(Tail(tagMap), userMap0)

(***************************************************************************)
(* Equipment resolver                                                      *)
(***************************************************************************)
WantedEvseIds(sessions0) == SeqToSetOf(FieldValues(sessions0, "evseId"))

\* a missing set that ignores what the charge points embedded
EveryWantedEvse(sessions0, evseMap0) == WantedEvseIds(sessions0)

\* new Set([...wantedEvseIds].filter(id => !evseMap.has(id)))
MissingAfterEmbedded(sessions0, evseMap0) ==
  {id \in WantedEvseIds(sessions0) : ~MapHas(evseMap0, id)}

\* the missing set the equipment stage of a handler starts from
InitialMissingEvse(variant, sessions0, evseMap0) ==
  IF variant = "v2" THEN MissingAfterEmbedded(sessions0, evseMap0)
  ELSE WantedEvseIds(sessions0)

\* Array.from(new Set(sessions.map(s => s.chargePointId).filter(v => v != null)))
CpIdsForEvse(sessions0) == Distinct(FieldValues(sessions0, "chargePointId"))

\* whether a listed evse is stored: the per-charge-point walk stores every
\* evse that has an id, the global walks only the ids still missing
StoresEvse(stage, id, missingEvse0) ==
  IF stage = "cp-evses" THEN TRUE ELSE id \in missingEvse0

\* for (const e of evses) { ... }
RECURSIVE CollectEvses(_, _, _, _)
CollectEvses(stage, evses, evseMap0, missingEvse0) ==
  IF evses = <<>> THEN [evseMap |-> evseMap0, missingEvse |-> missingEvse0]
  ELSE LET e == Head(evses)
           id == Coalesce(Get(e, "id"), Coalesce(Get(e, "evseId"), Null))
       IN IF ~IsNullish(id) /\ StoresEvse(stage, id, missingEvse0)
          THEN CollectEvses(stage, Tail(evses), MapSet(evseMap0, id, e),
                            missingEvse0 \ {id})
          ELSE CollectEvses(stage, Tail(evses), evseMap0, missingEvse0)

\* c?.standard || c?.type || c?.connectorType || c?.format || null, filtered
RECURSIVE ConnectorStandards(_)
ConnectorStandards(cs) ==
  IF cs = <<>> THEN <<>>
  ELSE LET c == Head(cs)
           x == Or(Get(c, "standard"), Or(Get(c, "type"),
                  Or(Get(c, "connectorType"), Or(Get(c, "format"), Null))))
       IN IF Truthy(x) THEN <<x>> \o ConnectorStandards(Tail(cs))
          ELSE ConnectorStandards(Tail(cs))

\* Number(pW) / 1000
WattsToKw(n) == IF n.t = "num" THEN Thousandths(n.v) ELSE RoundThousandths(n.v)

extractEvseFields(evse) ==
  IF evse.t # "obj"
  THEN [evseType |-> Null, connectorStandards |-> Null, maxPowerKw |-> Null]
  ELSE LET connectors == Or(Get(evse, "connectors"), Or(Get(evse, "connectorList"), Arr(<<>>)))
           connStandards == Distinct(ConnectorStandards(AsArray(connectors)))
           pKw == ToNumber(FirstOf(evse, <<"maxPowerKw", "powerKw", "power">>))
           pW == ToNumber(FirstOf(evse, <<"maxPowerW", "powerW">>))
       IN [evseType |-> FirstOf(evse, <<"type", "evseType", "currentType", "powerType", "dcAc">>),
           connectorStandards |-> IF connStandards # <<>> THEN Arr(connStandards) ELSE Null,
           maxPowerKw |-> IF IsFinite(pKw) THEN pKw
                          ELSE IF IsFinite(pW) THEN WattsToKw(pW)
                          ELSE Null]

(***************************************************************************)
(* Aggregator                                                              *)
(***************************************************************************)
\* the user a session's holder fields are taken from
UserInfo(variant, s, userMap0, tagMap) ==
  LET direct == And(Get(s, "userId"), MapGet(userMap0, Get(s, "userId")))
      viaTag == IF Truthy(Get(s, "idTag")) /\ TagHas(tagMap, Get(s, "idTag"))
                THEN MapGet(userMap0, TagGet(tagMap, Get(s, "idTag")))
                ELSE IF Truthy(Get(s, "idTag")) THEN False
                ELSE Get(s, "idTag")
  IN IF variant = "v1" THEN Or(direct, Or(viaTag, Null)) ELSE Or(direct, Null)

\* the user's name ahead of the label
HolderNameUserFirst(s, userInfo) ==
  Or(Get(userInfo, "name"),
     Or(And(Get(s, "idTagLabel"), Str(Trim(JsString(Get(s, "idTagLabel"))))),
        Or(Get(userInfo, "email"), Null)))

\* holderName
HolderName(s, userInfo) ==
  Or(And(Get(s, "idTagLabel"), Str(Trim(JsString(Get(s, "idTagLabel"))))),
     Or(Get(userInfo, "name"),
        Or(IF Truthy(userInfo)
           THEN Str(JoinTruthy(<<Get(userInfo, "firstName"), Get(userInfo, "lastName")>>))
           ELSE Str(<<>>),
           Or(Get(userInfo, "email"), Null))))

\* the attributes merged onto a session, the location fields last
Extras(variant, s, cpMap0, locMap0, userMap0, tagMap, evseMap0) ==
  LET cpFields == extractCpFields(MapGet(cpMap0, Get(s, "chargePointId")))
      locFields == extractLocationFields(MapGet(locMap0, cpFields.locationId))
      userInfo == UserInfo(variant, s, userMap0, tagMap)
      evseFields == extractEvseFields(MapGet(evseMap0, Get(s, "evseId")))
  IN Spread([chargePointName |-> Coalesce(cpFields.chargePointName, Null),
             locationId |-> Coalesce(cpFields.locationId, Null),
             holderName |-> HolderName(s, userInfo),
             holderEmail |-> Coalesce(Get(userInfo, "email"), Null),
             evseType |-> evseFields.evseType,
             connectorStandards |-> evseFields.connectorStandards,
             maxPowerKw |-> evseFields.maxPowerKw],
            locFields)

\* { ...s, chargePointName, ..., ...locFields }
Enriched(s, extras) == Obj(Spread(s.v, extras))

\* a report that lists the sessions last to first
ReportReversed(variant, sessions0, cpMap0, locMap0, userMap0, tagMap, evseMap0) ==
  [i \in 1..Len(sessions0) |->
     Enriched(sessions0[Len(sessions0) + 1 - i],
              Extras(variant, sessions0[Len(sessions0) + 1 - i], cpMap0, locMap0, userMap0,
                     tagMap, evseMap0))]

\* sessions.map(...)
Report(variant, sessions0, cpMap0, locMap0, userMap0, tagMap, evseMap0) ==
  [i \in 1..Len(sessions0) |->
     Enriched(sessions0[i],
              Extras(variant, sessions0[i], cpMap0, locMap0, userMap0, tagMap, evseMap0))]

(***************************************************************************)
(* The upstream API.  A URL is [res, key, page]: the resource, the id in   *)
(* the path or filter (Null for a listing) and the page the cursor points  *)
(* at.  A reply is a success with a JSON body, a non-success status, or a  *)
(* rejected request (fetch or the JSON decoding throws).                   *)
(***************************************************************************)
Url(res, key, page) == [res |-> res, key |-> key, page |-> page]
Ok(body) == [st |-> "ok", status |-> 200, body |-> body]
Bad(status) == [st |-> "bad", status |-> status, body |-> Str(<<"upstream says no">>)]
Throw == [st |-> "throw", status |-> 0, body |-> Undef]

\* { data: [...], links: { next } }, next the page it links to, 0 for null
Envelope(items, nxt) ==
  Ok(Obj([data |-> Arr(items),
          links |-> Obj([next |-> IF nxt = 0 THEN Null ELSE Num(nxt)])]))

\* the URLs of one listing: pages[i] is <<items, next>>
Listing(res, key, pages) ==
  [u \in {Url(res, key, i) : i \in 1..Len(pages)} |->
     Envelope(pages[u.page][1], pages[u.page][2])]

\* what the upstream answers; an unknown URL is 404
Answer(site, u) == IF u \in DOMAIN site THEN site[u] ELSE Bad(404)

T(x) == Str(<<x>>)

(***************************************************************************)
(* Upstream contents the handlers run on                                    *)
(***************************************************************************)
\* largest maxPages a request asks for
MaxPagesCap == 3

\* sessions in the wide fan-out upstream: more than one batch of users
FanSessions == 9

\* page requests after which a walk that has no page cap is cut off
WalkCut == 5

EvseEmbedded1 ==
  Obj([id |-> Num(1), type |-> T("AC"), maxPowerKw |-> Num(22),
       connectors |-> Arr(<<Obj([standard |-> T("type2")])>>)])
EvseListed1 ==
  Obj([id |-> Num(1), currentType |-> T("ac"), maxPowerW |-> Num(22000)])
EvseListed2 ==
  Obj([id |-> Num(2), evseType |-> T("DC"), powerKw |-> Num(50),
       connectorList |-> Arr(<<Obj([type |-> T("ccs")]), Obj([connectorType |-> T("ccs")]),
                               Obj([format |-> T("chademo")])>>)])
EvseListed3 ==
  Obj([evseId |-> Num(3), powerType |-> T("AC"), maxPowerW |-> Num(7400)])
EvseListed9 == Obj([id |-> Num(9), type |-> T("AC")])

Cp1 ==
  Obj([id |-> Num(1), name |-> T("cp-one"), locationId |-> Num(1),
       evses |-> Arr(<<EvseEmbedded1>>)])
Cp2 == Obj([chargePointId |-> Num(2), title |-> T("cp-two"), locationId |-> Num(2)])

Loc1 ==
  Obj([id |-> Num(1), name |-> T("site-one"),
       address |-> Obj([line1 |-> T("1 Main St"), city |-> T("Vilnius"), country |-> T("LT")]),
       geoposition |-> Obj([latitude |-> Num(54), longitude |-> Num(25)])])
Loc2 ==
  Obj([id |-> Num(2), title |-> T("site-two"),
       location |-> Obj([address |-> Obj([street |-> T("2 Side St"), town |-> T("Kaunas")]),
                         geoposition |-> Obj([lat |-> Num(55), lng |-> Num(24)])])])

User7 == Obj([data |-> Obj([firstName |-> T("Ann"), lastName |-> T("Lee"), email |-> T("ann@x")])])
User8 == Obj([email |-> T("eve@x")])
User9 == Obj([name |-> T("Neo"), email |-> T("neo@x")])

\* label and user 7 at the top level, another user in the authorization
SessionA ==
  Obj([id |-> Num(1), userId |-> Num(7), idTagLabel |-> Str(<<" ", "Bob", " ">>),
       authorization |-> Obj([userId |-> Num(9), rfidTagUid |-> T("T1")]),
       chargePointId |-> Num(1), evseId |-> Num(1), energy |-> Num(12345),
       status |-> T("finished")])
\* the identifier of SessionA on a later page, with other contents
SessionA2 ==
  Obj([id |-> Num(1), userId |-> Num(8), chargePointId |-> Num(2), evseId |-> Num(3),
       energy |-> Num(1), status |-> T("active")])
\* user only in the authorization, a tag, and fields named like the report's
SessionB ==
  Obj([id |-> Num(2), userId |-> Num(0), idTag |-> T("T1"),
       authorization |-> Obj([userId |-> Num(9)]),
       chargePointId |-> Num(1), evseId |-> Num(2),
       energyConsumption |-> Obj([total |-> Num(500)]),
       locationId |-> Num(5), holderName |-> T("walk-in"), kWh |-> Num(77)])
\* no identifier, no user, a blank label, the tag in the authorization
SessionC ==
  Obj([idTagLabel |-> Str(<<" ", " ">>),
       authorization |-> Obj([rfidTagUid |-> T("T2")]),
       chargePointId |-> Num(2), evseId |-> Num(3)])
\* tags only: T2 and T3 belong to the same user
\* (an energy of 0 at the top level beside a nested total)
SessionD ==
  Obj([id |-> Num(4), idTag |-> T("T2"), city |-> T("Riga"),
       energy |-> Num(0), energyConsumption |-> Obj([total |-> Num(900)])])
SessionE == Obj([id |-> Num(5), idTag |-> T("T3"), userId |-> Str(<<"-", "3">>)])
\* a label, and a tag that leads to a user with another name
SessionF ==
  Obj([id |-> Num(6), idTag |-> T("T1"), idTagLabel |-> T("Fleet 6"),
       chargePointId |-> Num(3), evseId |-> Num(1), energy |-> Milli(1234567)])

FeedBase ==
  <<<< <<SessionA, SessionB>>, 2 >>, << <<SessionA2, SessionC, SessionC>>, 0 >>>>
FeedEmpty == << << <<>>, 0 >> >>
FeedLoop == << << <<SessionA>>, 1 >> >>
FeedLong ==
  <<<< <<SessionB>>, 2 >>, << <<SessionD, SessionB>>, 3 >>, << <<SessionE, SessionF>>, 0 >>>>
\* sessions that name no charge point and no evse
FeedBare == << << <<SessionD, SessionE>>, 0 >> >>
Feeds == {FeedBase, FeedEmpty, FeedLoop, FeedLong, FeedBare}

\* the evses of a handler's global listing: v1.0 or v2.0
EvsesResource(variant) == IF variant = "v1" THEN "evses/v1.0" ELSE "evses/v2.0"

Catalog ==
  Listing("charge-points", Null, <<<< <<Cp1>>, 2 >>, << <<Cp2>>, 0 >>>>)
  @@ Listing("locations", Null, <<<< <<Loc1>>, 2 >>, << <<Loc2>>, 0 >>>>)
  @@ Listing("cp-evses", Num(1), << << <<EvseListed1, EvseListed2>>, 0 >> >>)
  @@ Listing("cp-evses", Num(2), <<<< <<EvseListed9>>, 2 >>, << <<>>, 0 >>>>)
  @@ Listing("evses/v1.0", Null, <<<< <<EvseListed1, EvseListed2>>, 2 >>, << <<EvseListed3>>, 0 >>>>)
  @@ Listing("evses/v2.0", Null, <<<< <<EvseListed1>>, 2 >>, << <<EvseListed3>>, 0 >>>>)
  @@ (Url("users", Num(7), 1) :> Ok(User7))
  @@ (Url("users", Num(8), 1) :> Ok(User8))
  @@ (Url("users", Num(9), 1) :> Ok(User9))
  @@ (Url("id-tags", T("T1"), 1) :> Ok(Obj([data |-> Arr(<<Obj([userId |-> Num(9)])>>)])))
  @@ (Url("id-tags", T("T2"), 1) :> Ok(Obj([data |-> Arr(<<Obj([user |-> Obj([id |-> Num(8)])])>>)])))
  @@ (Url("id-tags", T("T3"), 1) :> Ok(Obj([data |-> Arr(<<Obj([userId |-> Num(8)])>>)])))

SiteOf(feed) == Listing("sessions", Null, feed) @@ Catalog

Variants == {"basic", "v1", "v2"}

World(variant, maxPages, site) ==
  [variant |-> variant, method |-> "POST", token |-> TRUE, body |-> "json",
   maxPages |-> maxPages, site |-> site]

\* every handler against every feed under every page cap
PlainWorlds ==
  {World(v, m, SiteOf(f)) : v \in Variants, m \in 0..MaxPagesCap, f \in Feeds}

\* one URL of the upstream answers with a failure
Faulty(site, u, reply) == [x \in DOMAIN site |-> IF x = u THEN reply ELSE site[x]]

FaultWorlds ==
  UNION {{World(v, MaxPagesCap, Faulty(SiteOf(f), u, r)) :
            v \in Variants, u \in DOMAIN SiteOf(f), r \in {Bad(500), Throw}} :
         f \in {FeedBase, FeedLong}}

\* requests the handler turns away before any upstream call
RejectedWorlds ==
  {[World(v, 1, SiteOf(FeedBase)) EXCEPT !.method = m, !.token = k, !.body = b] :
     v \in Variants, m \in {"POST", "GET"}, k \in BOOLEAN,
     b \in {"json", "object", "invalid", "null"}}

\* many users, tags and charge points: more than one batch per fan-out
FanSession(i) ==
  Obj([id |-> Num(100 + i), userId |-> Num(20 + i), idTag |-> Str(<<"tag">> \o NatJsString(i)),
       chargePointId |-> Num(20 + i), evseId |-> Num(20 + i)])
FanSite ==
  Listing("sessions", Null, << << [i \in 1..FanSessions |-> FanSession(i)], 0 >> >>)
  @@ Listing("charge-points", Null,
       << << [i \in 1..FanSessions |-> Obj([id |-> Num(20 + i)])], 0 >> >>)
  @@ [u \in {Url("users", Num(20 + i), 1) : i \in 3..FanSessions} |-> Ok(User8)]
  @@ (Url("users", Num(21), 1) :> Throw)
  @@ (Url("id-tags", Str(<<"tag", "1">>), 1) :> Ok(Obj([data |-> Arr(<<Obj([userId |-> Num(21)])>>)])))
  @@ (Url("id-tags", Str(<<"tag", "2">>), 1) :> Throw)
  @@ [u \in {Url("cp-evses", Num(20 + i), 1) : i \in 2..FanSessions} |->
        Envelope(<<Obj([id |-> u.key, type |-> T("AC")])>>, 0)]
  @@ Listing("evses/v1.0", Null,
       << << [i \in 1..FanSessions |-> Obj([id |-> Num(20 + i), type |-> T("DC")])], 0 >> >>)
  @@ Listing("evses/v2.0", Null, << << <<>>, 0 >> >>)

FanWorlds == {World(v, 1, FanSite) : v \in {"v1", "v2"}}

\* a listing whose every page links to a next page and never holds a wanted id
Endless(res, key) == Listing(res, key, <<<< <<EvseListed9>>, 2 >>, << <<>>, 1 >>>>)

EndlessWorlds ==
  {World(v, m, Endless(res, key) @@ SiteOf(FeedBase)) :
     v \in {"v1", "v2"}, m \in 1..MaxPagesCap,
     res \in {"charge-points", "locations", "cp-evses", "evses/v1.0", "evses/v2.0"},
     key \in {Null, Num(2)}}

\* charge point 1 lists its evse 2 on a first page and its evse 1, which it
\* also embeds, on a second; charge point 2 lists its evse 3
RacySite ==
  Listing("cp-evses", Num(1), <<<< <<EvseListed2>>, 2 >>, << <<EvseListed1>>, 0 >>>>)
  @@ Listing("cp-evses", Num(2), << << <<EvseListed3>>, 0 >> >>)
  @@ SiteOf(FeedBase)

RacyWorlds == {World("v2", MaxPagesCap, RacySite)}

Worlds ==
  PlainWorlds \cup FaultWorlds \cup RejectedWorlds \cup FanWorlds \cup EndlessWorlds
    \cup RacyWorlds

(***************************************************************************)
(* One invocation of a handler                                             *)
(***************************************************************************)
VARIABLES
  up,           \* the request and the upstream it runs against (never changes)
  pc,           \* the stage the handler is in
  next,         \* next, cpNext, locNext, evseNext, url: the current walk's link
  pages,        \* pages, cpPages, locPages, evsePages, tries
  sessions, seen,
  cpMap, missingCp,
  locMap, missingLocs,
  userMap, tagToUserId,
  evseMap, missingEvse,
  fan,          \* the array the current fan-out runs over
  chunkAt,      \* i: where the next batch of the fan-out starts
  inflight,     \* the requests awaited
  issued,       \* every request sent so far, as a bag of URLs
  resp          \* the responses sent to the caller, in order

vars ==
  <<up, pc, next, pages, sessions, seen, cpMap, missingCp, locMap, missingLocs,
    userMap, tagToUserId, evseMap, missingEvse, fan, chunkAt, inflight, issued, resp>>

collected == <<sessions, seen>>
joins == <<cpMap, missingCp, locMap, missingLocs>>
holders == <<userMap, tagToUserId>>
equipment == <<evseMap, missingEvse>>
walk == <<next, pages>>
batch == <<fan, chunkAt>>

USER_CONCURRENCY == 8
CP_EVSE_CONCURRENCY == 6

Listings == {"sessions", "charge-points", "locations", "evses"}
Fanouts == {"users", "id-tags", "extra-users"}

Init ==
  /\ up \in Worlds
  /\ pc = "start"
  /\ next = Null
  /\ pages = 0
  /\ sessions = <<>>
  /\ seen = {}
  /\ cpMap = EmptyMap
  /\ missingCp = {}
  /\ locMap = EmptyMap
  /\ missingLocs = {}
  /\ userMap = EmptyMap
  /\ tagToUserId = <<>>
  /\ evseMap = EmptyMap
  /\ missingEvse = {}
  /\ fan = <<>>
  /\ chunkAt = 0
  /\ inflight = {}
  /\ issued = EmptyBag
  /\ resp = <<>>

\* res.status(status).json(body)
Send(status, body) ==
  /\ resp' = Append(resp, [status |-> status, body |-> body])
  /\ pc' = "done"

\* a handler that checks nothing before its first upstream call
StartUnchecked ==
  /\ pc = "start"
  /\ pc' = "sessions"
  /\ next' = Num(1)
  /\ pages' = 0
  /\ UNCHANGED <<up, collected, joins, holders, equipment, batch, inflight, issued, resp>>

\* the request is turned away, or the sessions walk is set up; a body that
\* is the JSON text null makes the destructuring of body throw
Start ==
  /\ pc = "start"
  /\ IF up.method # "POST"
     THEN Send(405, [error |-> "Method Not Allowed. Use POST."]) /\ UNCHANGED walk
     ELSE IF ~up.token
     THEN Send(500, [error |-> "Missing AMPECO_PARTNER_TOKEN"]) /\ UNCHANGED walk
     ELSE IF up.body = "invalid"
     THEN Send(400, [error |-> "Invalid JSON body"]) /\ UNCHANGED walk
     ELSE IF up.body = "null"
     THEN pc' = "rejected" /\ UNCHANGED <<walk, resp>>
     ELSE /\ pc' = "sessions"
          /\ next' = Num(1)
          /\ pages' = 0
          /\ UNCHANGED resp
  /\ UNCHANGED <<up, collected, joins, holders, equipment, batch, inflight, issued>>

\* the resource a listing stage reads
ResourceOf(stage) == IF stage = "evses" THEN EvsesResource(up.variant) ELSE stage

\* a walk that goes on whether or not an id is still wanted
AlwaysWanted(stage) == TRUE

\* the part of a walk's loop condition that is about the ids still wanted
StillWanted(stage) ==
  CASE stage = "sessions" -> TRUE
    [] stage = "charge-points" -> missingCp # {}
    [] stage = "locations" -> missingLocs # {}
    [] stage = "evses" -> missingEvse # {}

\* a cap that lets one page more through
OnePageMore(n, maxPages) == n <= maxPages

\* pages < maxPages
UnderCap(n, maxPages) == n < maxPages

\* while (next && pages < maxPages && missing.size > 0)
WalkOn(stage) == Truthy(next) /\ UnderCap(pages, up.maxPages) /\ StillWanted(stage)

\* await fetch(next, { headers })
ListRequest ==
  /\ pc \in Listings
  /\ inflight = {}
  /\ WalkOn(pc)
  /\ inflight' = {[url |-> Url(ResourceOf(pc), Null, next.v), idx |-> 0]}
  /\ issued' = issued (+) SetToBag({Url(ResourceOf(pc), Null, next.v)})
  /\ UNCHANGED <<up, pc, walk, collected, joins, holders, equipment, batch, resp>>


\* what a handler does when a page of a listing has a non-success status:
\* "fail" the run with a failure payload, or "break" out of the walk
OnListingFailure(variant, stage) ==
  IF variant = "v2" /\ stage = "evses" THEN "break" ELSE "fail"

\* the failure payload of a listing stage
FailurePayload(variant, stage, reply, u) ==
  IF variant = "basic"
  THEN [status |-> 502,
        body |-> [error |-> "AMPECO upstream error", status |-> reply.status,
                  body |-> reply.body, nextTried |-> u]]
  ELSE [status |-> reply.status,
        body |-> [stage |-> stage, upstreamStatus |-> reply.status, url |-> u,
                  body |-> reply.body]]

\* a rejected fetch in a listing walk: only the basic handler has a try/catch
\* around its walk; in the others the rejection leaves the handler
OnListingRejection(variant) == IF variant = "basic" THEN "catch" ELSE "reject"

\* the state of the walk after a page has been decoded and its items handled
ListPage(stage, body) ==
  /\ next' = PageNext(body)
  /\ pages' = pages + 1
  /\ pc' = pc
  /\ resp' = resp
  /\ CASE stage = "sessions" ->
            LET r == CollectPage(up.variant, PageData(body), sessions, seen)
            IN /\ sessions' = r.sessions
               /\ seen' = r.seen
               /\ UNCHANGED <<joins, equipment>>
       [] stage = "charge-points" ->
            LET r == CollectCps(up.variant, PageData(body), cpMap, missingCp, evseMap)
            IN /\ cpMap' = r.cpMap
               /\ missingCp' = r.missingCp
               /\ evseMap' = r.evseMap
               /\ UNCHANGED <<collected, locMap, missingLocs, missingEvse>>
       [] stage = "locations" ->
            LET r == CollectLocs(PageData(body), locMap, missingLocs)
            IN /\ locMap' = r.locMap
               /\ missingLocs' = r.missingLocs
               /\ UNCHANGED <<collected, cpMap, missingCp, equipment>>
       [] stage = "evses" ->
            LET r == CollectEvses(stage, PageData(body), evseMap, missingEvse)
            IN /\ evseMap' = r.evseMap
               /\ missingEvse' = r.missingEvse
               /\ UNCHANGED <<collected, joins>>

\* the fetch of a listing page settles
ListResponse ==
  /\ pc \in Listings
  /\ \E task \in inflight :
       LET reply == Answer(up.site, task.url)
       IN /\ inflight' = inflight \ {task}
          /\ CASE reply.st = "ok" -> ListPage(pc, reply.body)
               [] reply.st = "bad" /\ OnListingFailure(up.variant, pc) = "fail" ->
                    LET f == FailurePayload(up.variant, pc, reply, task.url)
                    IN /\ Send(f.status, f.body)
                       /\ UNCHANGED <<walk, collected, joins, equipment>>
               [] reply.st = "bad" /\ OnListingFailure(up.variant, pc) = "break" ->
                    /\ pc' = "build"
                    /\ UNCHANGED <<walk, collected, joins, equipment, resp>>
               [] reply.st = "throw" /\ OnListingRejection(up.variant) = "catch" ->
                    /\ Send(500, [error |-> "Error: fetch failed"])
                    /\ UNCHANGED <<walk, collected, joins, equipment>>
               [] reply.st = "throw" /\ OnListingRejection(up.variant) = "reject" ->
                    /\ pc' = "rejected"
                    /\ UNCHANGED <<walk, collected, joins, equipment, resp>>
  /\ UNCHANGED <<up, holders, batch, issued>>

\* a handler without the early return
NoShortCircuit(variant, sessions0) == FALSE

\* if (sessions.length === 0): the handlers that enrich return early
ShortCircuits(variant, sessions0) == variant # "basic" /\ Len(sessions0) = 0

\* the sessions walk is over
SessionsDone ==
  /\ pc = "sessions"
  /\ inflight = {}
  /\ ~WalkOn(pc)
  /\ IF up.variant = "basic"
     THEN /\ Send(200, [count |-> Len(sessions), data |-> sessions])
          /\ UNCHANGED <<walk, joins, equipment>>
     ELSE IF ShortCircuits(up.variant, sessions)
     THEN /\ Send(200, [count |-> 0, data |-> <<>>])
          /\ UNCHANGED <<walk, joins, equipment>>
     ELSE /\ pc' = "charge-points"
          /\ cpMap' = EmptyMap
          /\ missingCp' = WantedCpIds(sessions)
          /\ evseMap' = EmptyMap
          /\ next' = Num(1)
          /\ pages' = 0
          /\ UNCHANGED <<locMap, missingLocs, missingEvse, resp>>
  /\ UNCHANGED <<up, collected, holders, batch, inflight, issued>>

\* the charge-point walk is over
ChargePointsDone ==
  /\ pc = "charge-points"
  /\ inflight = {}
  /\ ~WalkOn(pc)
  /\ pc' = "locations"
  /\ locMap' = EmptyMap
  /\ missingLocs' = WantedLocIds(cpMap)
  /\ next' = Num(1)
  /\ pages' = 0
  /\ UNCHANGED <<up, collected, cpMap, missingCp, holders, equipment, batch, inflight,
                 issued, resp>>

\* the location walk is over
LocationsDone ==
  /\ pc = "locations"
  /\ inflight = {}
  /\ ~WalkOn(pc)
  /\ pc' = "users"
  /\ fan' = UserIds(sessions)
  /\ chunkAt' = 0
  /\ UNCHANGED <<up, walk, collected, joins, holders, equipment, inflight, issued, resp>>


\* the resource and the batch size of a per-id fan-out
FanResource(stage) == IF stage = "id-tags" THEN "id-tags" ELSE "users"
BatchSize(stage) == IF stage = "cp-evses" THEN CP_EVSE_CONCURRENCY ELSE USER_CONCURRENCY

\* a fan-out that sends everything that is left at once
WholeRest(array, i, size) == {j \in 1..Len(array) : i < j}

\* array.slice(i, i + size), as positions of the array
ChunkOf(array, i, size) == {j \in 1..Len(array) : i < j /\ j <= i + size}

\* the bag of the URLs of a set of requests
RECURSIVE UrlBag(_)
UrlBag(tasks) ==
  IF tasks = {} THEN EmptyBag
  ELSE LET task == CHOOSE x \in tasks : TRUE
       IN SetToBag({task.url}) (+) UrlBag(tasks \ {task})

\* a fan-out whose loop is never entered
NoBatches(stage) == FALSE

\* the loop condition of a fan-out: for (let i = 0; i < array.length; ...)
MoreBatches(stage) ==
  /\ chunkAt < Len(fan)
  /\ stage = "cp-evses" => missingEvse # {}

\* await Promise.all(chunk.map(...)): every fetch of the chunk is sent
FanBatch ==
  /\ pc \in Fanouts \cup {"cp-evses"}
  /\ inflight = {}
  /\ MoreBatches(pc)
  /\ LET res == IF pc = "cp-evses" THEN "cp-evses" ELSE FanResource(pc)
         tasks == {[url |-> Url(res, fan[j], 1), idx |-> j] :
                     j \in ChunkOf(fan, chunkAt, BatchSize(pc))}
     IN /\ inflight' = tasks
        /\ issued' = issued (+) UrlBag(tasks)
  /\ chunkAt' = chunkAt + BatchSize(pc)
  /\ UNCHANGED <<up, pc, walk, collected, joins, holders, equipment, fan, resp>>

\* a task without its try/catch: the failure leaves the handler
PerIdFailureRejects(stage) == "reject"

\* what a failed per-id fetch does to the run: each task returns on a
\* non-success status and has a try/catch around its fetch
OnPerIdFailure(stage) == "swallow"

\* the stage after a per-id fetch has settled
AfterPerId(stage, reply) ==
  IF reply.st # "ok" /\ OnPerIdFailure(stage) # "swallow" THEN "rejected" ELSE stage

\* one fetch of a user or id-tag batch settles; a failure is swallowed
FanResponse ==
  /\ pc \in Fanouts
  /\ \E task \in inflight :
       LET reply == Answer(up.site, task.url)
           uId == TagUserId(reply.body)
       IN /\ inflight' = inflight \ {task}
          /\ pc' = AfterPerId(pc, reply)
          /\ userMap' = IF reply.st = "ok" /\ pc # "id-tags"
                        THEN MapSet(userMap, task.url.key, UserEntry(reply.body))
                        ELSE userMap
          /\ tagToUserId' = IF reply.st = "ok" /\ pc = "id-tags" /\ ~IsNullish(uId)
                            THEN TagSet(tagToUserId, task.url.key, uId)
                            ELSE tagToUserId
  /\ UNCHANGED <<up, walk, collected, joins, equipment, batch, issued, resp>>

\* the batches of a user or id-tag fan-out are over
FanDone ==
  /\ pc \in Fanouts
  /\ inflight = {}
  /\ ~MoreBatches(pc)
  /\ chunkAt' = 0
  /\ CASE pc = "users" ->
            /\ pc' = "id-tags"
            /\ fan' = IdTagsNeedingLookup(sessions)
            /\ UNCHANGED <<walk, equipment>>
       [] pc = "id-tags" ->
            /\ pc' = "extra-users"
            /\ fan' = ExtraUserIds(tagToUserId, userMap)
            /\ UNCHANGED <<walk, equipment>>
       [] pc = "extra-users" /\ up.variant = "v2" ->
            /\ pc' = "cp-evses"
            /\ fan' = CpIdsForEvse(sessions)
            /\ missingEvse' = InitialMissingEvse(up.variant, sessions, evseMap)
            /\ UNCHANGED <<walk, evseMap>>
       [] pc = "extra-users" /\ up.variant # "v2" ->
            /\ pc' = "evses"
            /\ fan' = <<>>
            /\ evseMap' = EmptyMap
            /\ missingEvse' = InitialMissingEvse(up.variant, sessions, evseMap)
            /\ next' = Num(1)
            /\ pages' = 0
  /\ UNCHANGED <<up, collected, joins, holders, inflight, issued, resp>>

\* how many requests were sent to a resource, and for one key of it
RequestsTo(res) ==
  BagCardinality([u \in {x \in DOMAIN issued : x.res = res} |-> issued[u]])
RequestsFor(res, key) ==
  BagCardinality([u \in {x \in DOMAIN issued : x.res = res /\ x.key = key} |-> issued[u]])

\* while (url && missingEvse.size > 0): the per-charge-point walk goes on
CpWalkOn(url, missingEvse0) == Truthy(url) /\ missingEvse0 # {}

\* what the settling of one page of a charge point's sub-listing does to the
\* equipment map, the missing set and the requests awaited
CpEvseAfter(task, st) ==
  LET reply == Answer(up.site, task.url)
      r == IF reply.st = "ok"
           THEN CollectEvses("cp-evses", PageData(reply.body), st.evseMap, st.missingEvse)
           ELSE [evseMap |-> st.evseMap, missingEvse |-> st.missingEvse]
      url == IF reply.st = "ok" THEN PageNext(reply.body) ELSE Null
      more == reply.st = "ok" /\ CpWalkOn(url, r.missingEvse)
  IN [evseMap |-> r.evseMap,
      missingEvse |-> r.missingEvse,
      inflight |-> (st.inflight \ {task}) \cup
                   (IF more THEN {[url |-> Url("cp-evses", task.url.key, url.v),
                                   idx |-> task.idx]}
                    ELSE {})]

\* what the settling of one user fetch or id-tag lookup does to the user map
\* and the tag map
FanAfter(stage, task, st) ==
  LET reply == Answer(up.site, task.url)
      uId == TagUserId(reply.body)
  IN [userMap |-> IF reply.st = "ok" /\ stage # "id-tags"
                  THEN MapSet(st.userMap, task.url.key, UserEntry(reply.body))
                  ELSE st.userMap,
      tagToUserId |-> IF reply.st = "ok" /\ stage = "id-tags" /\ ~IsNullish(uId)
                      THEN TagSet(st.tagToUserId, task.url.key, uId)
                      ELSE st.tagToUserId]

\* a page of one charge point's evse sub-listing settles; the walk of that
\* charge point asks for its next page or ends
CpEvseResponse ==
  /\ pc = "cp-evses"
  /\ \E task \in inflight :
       LET reply == Answer(up.site, task.url)
           r == IF reply.st = "ok"
                THEN CollectEvses(pc, PageData(reply.body), evseMap, missingEvse)
                ELSE [evseMap |-> evseMap, missingEvse |-> missingEvse]
           url == IF reply.st = "ok" THEN PageNext(reply.body) ELSE Null
           more == reply.st = "ok" /\ CpWalkOn(url, r.missingEvse)
           after == [url |-> Url("cp-evses", task.url.key, IF more THEN url.v ELSE 0),
                     idx |-> task.idx]
       IN /\ evseMap' = r.evseMap
          /\ missingEvse' = r.missingEvse
          /\ pc' = AfterPerId(pc, reply)
          /\ more => RequestsFor("cp-evses", task.url.key) < WalkCut
          /\ inflight' = (inflight \ {task}) \cup (IF more THEN {after} ELSE {})
          /\ issued' = IF more THEN issued (+) SetToBag({after.url}) ELSE issued
  /\ UNCHANGED <<up, walk, collected, joins, holders, batch, resp>>

\* the per-charge-point batches are over: the global listing is set up
CpEvsesDone ==
  /\ pc = "cp-evses"
  /\ inflight = {}
  /\ ~MoreBatches(pc)
  /\ pc' = "evses"
  /\ next' = Num(1)
  /\ pages' = 0
  /\ UNCHANGED <<up, collected, joins, holders, equipment, batch, inflight, issued, resp>>

\* the global evse walk is over
EvsesDone ==
  /\ pc = "evses"
  /\ inflight = {}
  /\ ~WalkOn(pc)
  /\ pc' = "build"
  /\ UNCHANGED <<up, walk, collected, joins, holders, equipment, batch, inflight, issued,
                 resp>>

\* res.status(200).json({ count: enriched.length, data: enriched })
Respond ==
  /\ pc = "build"
  /\ LET enriched == Report(up.variant, sessions, cpMap, locMap, userMap, tagToUserId,
                            evseMap)
     IN Send(200, [count |-> Len(enriched), data |-> enriched])
  /\ UNCHANGED <<up, walk, collected, joins, holders, equipment, batch, inflight, issued>>

Next ==
  \/ Start
  \/ ListRequest
  \/ ListResponse
  \/ SessionsDone
  \/ ChargePointsDone
  \/ LocationsDone
  \/ FanBatch
  \/ FanResponse
  \/ FanDone
  \/ CpEvseResponse
  \/ CpEvsesDone
  \/ EvsesDone
  \/ Respond

Spec == Init /\ [][Next]_vars


(***************************************************************************)
(* Properties                                                              *)
(***************************************************************************)
PerIdResources == {"users", "id-tags", "cp-evses"}
WalkResources == {"sessions", "charge-points", "locations"}
GlobalEvseResources == {"evses/v1.0", "evses/v2.0"}

\* the request u was sent and its fetch has settled
Settled(u) == u \in DOMAIN issued /\ \A task \in inflight : task.url # u

\* the request passes the handler's checks of method, credential and body
Admitted == up.method = "POST" /\ up.token /\ up.body \notin {"invalid", "null"}

\* the handler is no longer running: it answered, or a rejection left it
Over == pc \in {"done", "rejected"}

\* the run answered with the success payload
Succeeded == pc = "done" /\ Len(resp) = 1 /\ resp[1].status = 200

\* the records of the first n pages of the sessions listing, from page p on
RECURSIVE ServedFrom(_, _)
ServedFrom(p, n) ==
  IF n = 0 THEN <<>>
  ELSE LET body == Answer(up.site, Url("sessions", Null, p)).body
       IN PageData(body) \o (IF n = 1 THEN <<>> ELSE ServedFrom(PageNext(body).v, n - 1))

HasId(r) == ~IsNullish(Get(r, "id"))
WithId(a, k) == {i \in 1..Len(a) : HasId(a[i]) /\ JsString(Get(a[i], "id")) = k}
WithoutId(a) == {i \in 1..Len(a) : ~HasId(a[i])}
IdsOf(a) == {JsString(Get(a[i], "id")) : i \in {j \in 1..Len(a) : HasId(a[j])}}
FirstWithId(a, k) == a[CHOOSE i \in WithId(a, k) : \A j \in WithId(a, k) : i <= j]

\* C1: between two pages of the sessions walk, and when it ends, the collected
\* list holds for every identifier served so far exactly one record, the first
\* one served with it, and holds every served record that has no identifier.
C1_OneRecordPerIdentifier ==
  (pc = "sessions" /\ inflight = {}) =>
    LET all == ServedFrom(1, pages)
    IN /\ IdsOf(sessions) = IdsOf(all)
       /\ \A k \in IdsOf(all) :
            /\ Cardinality(WithId(sessions, k)) = 1
            /\ \A i \in WithId(sessions, k) :
                 sessions[i] = Collected(up.variant, FirstWithId(all, k))
       /\ Cardinality(WithoutId(sessions)) = Cardinality(WithoutId(all))

\* an identifier was served twice and two records without identifier once each
C1_Witness ==
  /\ pc = "sessions" /\ inflight = {} /\ pages = 2
  /\ \E k \in IdsOf(ServedFrom(1, pages)) : Cardinality(WithId(ServedFrom(1, pages), k)) = 2
  /\ Cardinality(WithoutId(sessions)) = 2

\* C2: once a page of the sessions, charge-point or location listing has
\* come back with a non-success status, the run is over with one response,
\* a failure payload that names the stage, the upstream status and the URL,
\* carries no data, and nothing is in flight.
C2_ListingFailureNamesStage ==
  \A u \in DOMAIN issued :
    (u.res \in WalkResources /\ Settled(u) /\ Answer(up.site, u).st = "bad") =>
      /\ pc = "done"
      /\ inflight = {}
      /\ Len(resp) = 1
      /\ "data" \notin DOMAIN resp[1].body
      /\ "stage" \in DOMAIN resp[1].body
      /\ resp[1].body.stage = u.res
      /\ resp[1].body.upstreamStatus = Answer(up.site, u).status
      /\ resp[1].body.url = u

\* some fetch of a fan-out has failed
PerIdFailed ==
  \E u \in DOMAIN issued :
    u.res \in PerIdResources /\ Settled(u) /\ Answer(up.site, u).st # "ok"

\* every request outside the fan-outs was answered with a success
ListingsFine ==
  \A u \in DOMAIN issued : u.res \notin PerIdResources => Answer(up.site, u).st = "ok"

\* C3: a failed per-id fetch sends nothing while the fan-out runs, and a run
\* in which only per-id fetches failed ends with the success payload, one
\* record per collected session; a session whose user was fetched has that
\* user's email, one whose user fetch failed and that has no tag has none.
C3_PerIdFailureIsSwallowed ==
  /\ pc \in Fanouts \cup {"cp-evses"} => resp = <<>>
  /\ (PerIdFailed /\ ListingsFine /\ Over) =>
       /\ Succeeded
       /\ resp[1].body.count = Len(sessions)
       /\ Len(resp[1].body.data) = Len(sessions)
       /\ \A i \in 1..Len(sessions) :
            LET uid == Get(sessions[i], "userId")
                reply == Answer(up.site, Url("users", uid, 1))
                out == resp[1].body.data[i]
            IN /\ Get(out, "id") = Get(sessions[i], "id")
               /\ uid.v > 0 =>
                    IF reply.st = "ok"
                    THEN Get(out, "holderEmail") = Get(UserEntry(reply.body), "email")
                    ELSE ~Truthy(Get(sessions[i], "idTag")) =>
                           Get(out, "holderEmail") = Null /\ Get(out, "holderName") = Null

\* a user fetch and an id-tag lookup failed and the report was sent
C3_Witness ==
  /\ Succeeded
  /\ ListingsFine
  /\ \E u \in DOMAIN issued : u.res = "users" /\ Answer(up.site, u).st = "throw"
  /\ \E u \in DOMAIN issued : u.res = "id-tags" /\ Answer(up.site, u).st # "ok"

\* C4: when the sessions walk is over and nothing was collected, the handler
\* is over too, every request it sent went to the sessions listing, and if
\* the walk met no failure the response is { count: 0, data: [] }.
C4_NoSessionsShortCircuits ==
  (pc \notin {"start", "sessions"} /\ sessions = <<>>) =>
    /\ Over
    /\ \A u \in DOMAIN issued : u.res = "sessions"
    /\ (Admitted /\ ListingsFine) =>
         resp = <<[status |-> 200, body |-> [count |-> 0, data |-> <<>>]]>>

\* an enriching handler walked an empty page and answered
C4_Witness ==
  /\ up.variant # "basic"
  /\ Succeeded
  /\ sessions = <<>>
  /\ BagCardinality(issued) = 1

\* the evse objects embedded in the charge points found
EmbeddedRecords ==
  UNION {SeqToSetOf(AsArray(Get(cpMap[k], "evses"))) : k \in DOMAIN cpMap}

\* C5: in the three-tier handler the record held for an id that came embedded
\* in a charge-point payload stays an embedded one while tiers 2 and 3 run
\* and after them.
C5_EmbeddedRecordIsKept ==
  (up.variant = "v2" /\ pc \in {"cp-evses", "evses", "build", "done"}) =>
    \A e \in EmbeddedRecords :
      LET id == Coalesce(Get(e, "id"), Coalesce(Get(e, "evseId"), Null))
      IN ~IsNullish(id) => MapGet(evseMap, id) \in EmbeddedRecords

\* C6: once a page request of the global evse listing has failed, the run
\* goes on to the report and answers with the success payload.
C6_GlobalListingFailureTolerated ==
  \A u \in DOMAIN issued :
    (u.res \in GlobalEvseResources /\ Settled(u) /\ Answer(up.site, u).st # "ok") =>
      \/ pc = "build"
      \/ /\ Succeeded
         /\ \A i \in 1..Len(sessions) :
              ~MapHas(evseMap, Get(sessions[i], "evseId")) =>
                Get(resp[1].body.data[i], "evseType") = Null

\* C7: no walk sends more than maxPages page requests: not the four listing
\* walks, not the walk of one charge point's evse sub-listing.
C7_WalksStayUnderPageCap ==
  /\ \A res \in WalkResources \cup GlobalEvseResources : RequestsTo(res) <= up.maxPages
  /\ \A u \in DOMAIN issued :
       u.res = "cp-evses" => RequestsFor("cp-evses", u.key) <= up.maxPages

\* the requests in flight belong to one slice of size n of the array
SameBatch(n) ==
  \A a, b \in inflight : (a.idx - 1) \div n = (b.idx - 1) \div n

\* C8: in a user or id-tag fan-out at most 8 requests are in flight, in a
\* per-charge-point fan-out at most 6, all of them of one batch; outside the
\* fan-outs at most one request is in flight.
C8_FanoutIsBounded ==
  /\ pc \in Fanouts =>
       Cardinality(inflight) <= USER_CONCURRENCY /\ SameBatch(USER_CONCURRENCY)
  /\ pc = "cp-evses" =>
       Cardinality(inflight) <= CP_EVSE_CONCURRENCY /\ SameBatch(CP_EVSE_CONCURRENCY)
  /\ pc \notin Fanouts \cup {"cp-evses"} => Cardinality(inflight) <= 1

\* the second batch of charge points is in flight, after two batches of users
C8_Witness ==
  /\ pc = "cp-evses"
  /\ chunkAt = 2 * CP_EVSE_CONCURRENCY
  /\ inflight # {}
  /\ RequestsTo("users") > USER_CONCURRENCY

\* the records served by the sessions listing
ServedRecords ==
  UNION {SeqToSetOf(PageData(up.site[u].body)) :
           u \in {x \in DOMAIN up.site : x.res = "sessions" /\ up.site[x].st = "ok"}}

\* C9: every field of the upstream record of a session, other than userId and
\* idTag, has the upstream value in the session's record of the report.
C9_UpstreamFieldsSurviveMerge ==
  (Succeeded /\ up.variant # "basic") =>
    \A i \in 1..Len(sessions) :
      \A r \in ServedRecords :
        NormalizeSession(r) = sessions[i] =>
          \A f \in DOMAIN r.v \ {"userId", "idTag"} :
            Get(resp[1].body.data[i], f) = r.v[f]

\* the label is a non-blank string
NonBlankLabel(s) ==
  Truthy(Get(s, "idTagLabel")) /\ Trim(JsString(Get(s, "idTagLabel"))) # <<>>

\* C10: in the report of an enriching handler, the holder name of a session
\* that has a non-blank label is the trimmed label.
C10_LabelWins ==
  (Succeeded /\ up.variant # "basic") =>
    \A i \in 1..Len(sessions) :
      NonBlankLabel(sessions[i]) =>
        Get(resp[1].body.data[i], "holderName")
          = Str(Trim(JsString(Get(sessions[i], "idTagLabel"))))

\* a labelled session whose user was fetched and has another name
C10_Witness ==
  /\ Succeeded
  /\ \E i \in 1..Len(sessions) :
       /\ NonBlankLabel(sessions[i])
       /\ Trim(Get(sessions[i], "idTagLabel").v) # Get(sessions[i], "idTagLabel").v
       /\ MapHas(userMap, Get(sessions[i], "userId"))
       /\ Truthy(Get(MapGet(userMap, Get(sessions[i], "userId")), "name"))
       /\ Get(resp[1].body.data[i], "holderEmail")
            = Get(MapGet(userMap, Get(sessions[i], "userId")), "email")

\* the value is, as a number, finite and positive
PositiveNumber(x) == IsFinite(ToNumber(x)) /\ ToNumber(x).v > 0

\* the top-level and the authorization userId the upstream sent with a
\* collected session
TopUser(s) == Get(s, "userIdRaw")
AuthUser(s) == Get(Get(s, "authorization"), "userId")

\* C11: the resolved userId of every session an enriching handler collected
\* is the top-level userId when that is a finite positive number, else the
\* authorization's userId when that is one, else 0.
C11_UserIdPriority ==
  up.variant # "basic" =>
    \A i \in 1..Len(sessions) :
      LET s == sessions[i]
      IN Get(s, "userId") =
           IF PositiveNumber(TopUser(s)) THEN ToNumber(TopUser(s))
           ELSE IF PositiveNumber(AuthUser(s)) THEN ToNumber(AuthUser(s))
           ELSE Num(0)

\* collected: a session with two different positive ids, one with a zero
\* top-level id and a positive authorization id, and one with neither
C11_Witness ==
  /\ up.variant # "basic"
  /\ \E i \in 1..Len(sessions) :
       /\ PositiveNumber(TopUser(sessions[i])) /\ PositiveNumber(AuthUser(sessions[i]))
       /\ TopUser(sessions[i]) # AuthUser(sessions[i])
  /\ \E i \in 1..Len(sessions) :
       /\ TopUser(sessions[i]) = Num(0) /\ PositiveNumber(AuthUser(sessions[i]))
  /\ \E i \in 1..Len(sessions) :
       /\ IsNullish(TopUser(sessions[i])) /\ IsNullish(AuthUser(sessions[i]))
       /\ Get(sessions[i], "userId") = Num(0)

\* how many times the request u was sent
TimesSent(u) == IF u \in DOMAIN issued THEN issued[u] ELSE 0

\* C12: the array a fan-out runs over holds no id twice, and no user is
\* requested twice in a run that met no failure.
C12_FanoutIdsAreDistinct ==
  /\ pc \in Fanouts \cup {"cp-evses"} =>
       \A i, j \in 1..Len(fan) : fan[i] = fan[j] => i = j
  /\ \A u \in DOMAIN issued :
       (u.res = "users" /\ Answer(up.site, u).st = "ok") => TimesSent(u) <= 1

\* C13: a per-id request that fails is never sent a second time.
C13_FailedIdIsNotRequestedAgain ==
  \A u \in DOMAIN issued :
    (u.res \in PerIdResources /\ u.page = 1 /\ Answer(up.site, u).st # "ok") =>
      TimesSent(u) <= 1

\* the served records that are the first with their identifier, or have
\* none, in the order served
RECURSIVE FirstDiscovered(_, _)
FirstDiscovered(all, n) ==
  IF n = 0 THEN <<>>
  ELSE LET r == all[n]
           isNew == ~HasId(r) \/ WithId(SubSeq(all, 1, n - 1), JsString(Get(r, "id"))) = {}
       IN IF isNew THEN Append(FirstDiscovered(all, n - 1), r)
          ELSE FirstDiscovered(all, n - 1)

\* the keys the report writes onto a session
ReportKeys ==
  {"chargePointName", "locationId", "holderName", "holderEmail", "evseType",
   "connectorStandards", "maxPowerKw", "locationName", "addressLine1", "city",
   "country", "latitude", "longitude"}

\* the record out is the report's record of the collected session s
RecordOf(out, s) ==
  IF up.variant = "basic" THEN out = s
  ELSE \A f \in DOMAIN s.v \ ReportKeys : Get(out, f) = s.v[f]

\* C14: the success payload has one record per collected session, in the
\* order the sessions listing first served them (page by page, then by
\* position in the page), and count is the number of records in data.
C14_ReportKeepsDiscoveryOrder ==
  Succeeded =>
    LET all == ServedFrom(1, RequestsTo("sessions"))
        first == FirstDiscovered(all, Len(all))
        data == resp[1].body.data
    IN /\ resp[1].body.count = Len(data)
       /\ Len(data) = Len(first)
       /\ Len(data) = Len(sessions)
       /\ \A i \in 1..Len(data) :
            /\ sessions[i] = Collected(up.variant, first[i])
            /\ RecordOf(data[i], sessions[i])

\* an enriching handler reported three or more sessions, after a walk of
\* several pages on which some record was served again
C14_Witness ==
  /\ Succeeded
  /\ up.variant # "basic"
  /\ Len(resp[1].body.data) >= 3
  /\ RequestsTo("sessions") >= 2
  /\ Len(ServedFrom(1, RequestsTo("sessions"))) > Len(sessions)
  /\ \E i, j \in 1..Len(sessions) : sessions[i] # sessions[j]

\* the first page of a listing links to a further page
LinksOn(res) == Truthy(PageNext(Answer(up.site, Url(res, Null, 1)).body))

\* C15: a page of the charge-point listing is requested only while a charge
\* point some session names has not been found, a page of the location
\* listing only while a location some found charge point names has not been
\* found; with no charge point or no location wanted, the stage sends nothing.
C15_WalksStopEarly ==
  /\ (pc = "charge-points" /\ inflight # {}) =>
       WantedCpIds(sessions) \ DOMAIN cpMap # {}
  /\ (pc = "locations" /\ inflight # {}) =>
       WantedLocIds(cpMap) \ DOMAIN locMap # {}
  /\ WantedCpIds(sessions) = {} => RequestsTo("charge-points") = 0
  /\ (pc \notin {"start", "sessions", "charge-points"} /\ WantedLocIds(cpMap) = {}) =>
       RequestsTo("locations") = 0

\* both walks ended after their first page, which links to a second one the
\* page cap would have allowed
C15_Witness ==
  /\ Succeeded
  /\ up.maxPages >= 2
  /\ RequestsTo("charge-points") = 1 /\ LinksOn("charge-points")
  /\ RequestsTo("locations") = 1 /\ LinksOn("locations")
  /\ DOMAIN cpMap = WantedCpIds(sessions)
  /\ DOMAIN locMap = WantedLocIds(cpMap)

\* the name a fetched user is shown with: the explicit name, else first and
\* last name joined, else the email
DisplayName(user) ==
  Or(Get(user, "name"),
     Or(Str(JoinTruthy(<<Get(user, "firstName"), Get(user, "lastName")>>)),
        Or(Get(user, "email"), Null)))

\* the session has no label and no resolved user, and its tag led to a user
\* whose fetch succeeded
HolderFoundByTag(s) ==
  /\ ~NonBlankLabel(s)
  /\ Get(s, "userId") = Num(0)
  /\ Truthy(Get(s, "idTag"))
  /\ TagHas(tagToUserId, Get(s, "idTag"))
  /\ MapHas(userMap, TagGet(tagToUserId, Get(s, "idTag")))

\* C16: in the report of an enriching handler, a session without label and
\* resolved user whose tag led to a fetched user has that user's display
\* name as holder name and that user's email as holder email.
C16_TagDiscoveredHolder ==
  (Succeeded /\ up.variant # "basic") =>
    \A i \in 1..Len(sessions) :
      HolderFoundByTag(sessions[i]) =>
        LET user == MapGet(userMap, TagGet(tagToUserId, Get(sessions[i], "idTag")))
            out == resp[1].body.data[i]
        IN /\ Get(out, "holderName") = DisplayName(user)
           /\ Get(out, "holderEmail") = Get(user, "email")

\* C17: every id-tag lookup sent is for the tag of some collected session
\* that has no resolved user and no label.
C17_TagLookupOnlyForUnresolved ==
  \A u \in DOMAIN issued :
    u.res = "id-tags" =>
      \E i \in 1..Len(sessions) :
        /\ Get(sessions[i], "idTag") = u.key
        /\ Get(sessions[i], "userId") = Num(0)
        /\ ~NonBlankLabel(sessions[i])

\* the ids of the evses embedded in the charge points found
EmbeddedIds ==
  {Coalesce(Get(e, "id"), Coalesce(Get(e, "evseId"), Null)) : e \in EmbeddedRecords}

\* the equipment stages of a handler and what follows them
EquipmentOn == pc \in {"cp-evses", "evses", "build", "done"}

\* a request of the equipment stages is sent in this step
EquipmentRequest == pc \in {"cp-evses", "evses"} /\ issued' # issued

\* C18: when every wanted evse came embedded, the three-tier handler sends
\* no sub-listing and no global listing request; and every request of the
\* equipment stages, sub-listing or global, is sent while some wanted evse
\* has no record yet.
C18_TiersOnlyForUnresolved ==
  /\ [](  (up.variant = "v2" /\ EquipmentOn /\ WantedEvseIds(sessions) \subseteq EmbeddedIds)
          => (RequestsTo("cp-evses") = 0 /\ RequestsTo("evses/v2.0") = 0))
  /\ [][EquipmentRequest => WantedEvseIds(sessions) \ DOMAIN evseMap' # {}]_vars

\* the three-tier handler reported a session whose evse came embedded and
\* sent no equipment request
C18_Witness ==
  /\ up.variant = "v2"
  /\ Succeeded
  /\ WantedEvseIds(sessions) # {}
  /\ WantedEvseIds(sessions) \subseteq EmbeddedIds
  /\ RequestsTo("cp-evses") = 0
  /\ RequestsTo("evses/v2.0") = 0

\* C19: every charge point whose evse sub-listing is requested is named by
\* a collected session whose evse did not come embedded in a charge point.
C19_OnlyChargePointsInNeed ==
  \A u \in DOMAIN issued :
    u.res = "cp-evses" =>
      \E i \in 1..Len(sessions) :
        /\ Get(sessions[i], "chargePointId") = u.key
        /\ ~IsNullish(Get(sessions[i], "evseId"))
        /\ Get(sessions[i], "evseId") \notin EmbeddedIds

\* the page the n-th request of the sessions walk asks for
RECURSIVE SessionsPageAt(_)
SessionsPageAt(n) ==
  IF n = 1 THEN 1
  ELSE PageNext(Answer(up.site, Url("sessions", Null, SessionsPageAt(n - 1))).body).v

\* the sessions walk has ended: its pages were all served, and the last one
\* has no next link or was the last the page cap allows
SessionsWalkFinished ==
  LET n == RequestsTo("sessions")
  IN /\ pc \notin {"start", "sessions"}
     /\ \A k \in 1..n : Answer(up.site, Url("sessions", Null, SessionsPageAt(k))).st = "ok"
     /\ \/ n = up.maxPages
        \/ /\ n >= 1
           /\ ~Truthy(PageNext(Answer(up.site, Url("sessions", Null, SessionsPageAt(n))).body))

\* every user and every tag the sessions call for was asked for
IdentityAsked ==
  /\ \A i \in 1..Len(UserIds(sessions)) :
       TimesSent(Url("users", UserIds(sessions)[i], 1)) >= 1
  /\ \A i \in 1..Len(IdTagsNeedingLookup(sessions)) :
       TimesSent(Url("id-tags", IdTagsNeedingLookup(sessions)[i], 1)) >= 1

\* C20: a request to another resource than the sessions listing is sent
\* only after the sessions walk has ended; a response is sent with nothing
\* in flight and no request follows it; the report of an enriching handler
\* is sent after the sessions walk and the identity fan-outs; and a listing
\* walk, that of one charge point's evses included, never has two page
\* requests outstanding.
C20_StagesRunInOrder ==
  /\ []( /\ (\E u \in DOMAIN issued : u.res # "sessions") => SessionsWalkFinished
         /\ resp # <<>> => inflight = {}
         /\ (Succeeded /\ up.variant # "basic" /\ sessions # <<>>) =>
              (SessionsWalkFinished /\ IdentityAsked)
         /\ pc \in Listings => Cardinality(inflight) <= 1
         /\ pc = "cp-evses" =>
              \A a, b \in inflight : a.url.key = b.url.key => a = b )
  /\ [][resp # <<>> => (issued' = issued /\ resp' = resp)]_vars

\* the three-tier handler reported after a sessions walk of two pages and
\* requests to every other resource
C20_Witness ==
  /\ up.variant = "v2"
  /\ Succeeded
  /\ RequestsTo("sessions") >= 2
  /\ \A res \in {"charge-points", "locations", "users", "id-tags", "cp-evses", "evses/v2.0"} :
       RequestsTo(res) >= 1

\* a number in thousandths
InThousandths(x) == IF x.t = "num" THEN 1000 * x.v ELSE x.v

\* the watt-hours a session's kWh is taken from
ChosenWh(s) ==
  IF ~IsNullish(Get(s, "energy")) THEN Get(s, "energy")
  ELSE IF ~IsNullish(Get(Get(s, "energyConsumption"), "total"))
  THEN Get(Get(s, "energyConsumption"), "total")
  ELSE Num(0)

\* C21: the kWh of every session an enriching handler collected is a number
\* of thousandths; times 1000 it is the top-level energy if there is one (0
\* included), else the nested total, else 0, when that is a whole number of
\* watt-hours, and within half a thousandth of it otherwise.
C21_KWhConversion ==
  up.variant # "basic" =>
    \A i \in 1..Len(sessions) :
      LET wh == ChosenWh(sessions[i])
          kWh == Get(sessions[i], "kWh")
      IN /\ IsFinite(kWh)
         /\ wh.t = "num" => InThousandths(kWh) = wh.v
         /\ wh.t = "milli" =>
              /\ 1000 * InThousandths(kWh) - wh.v <= 500
              /\ wh.v - 1000 * InThousandths(kWh) <= 500

\* collected: a nested total alone, a top-level 0 beside a nested total,
\* and a top-level energy that is no whole number of watt-hours
C21_Witness ==
  /\ up.variant # "basic"
  /\ \E i \in 1..Len(sessions) :
       /\ IsNullish(Get(sessions[i], "energy"))
       /\ ChosenWh(sessions[i]) = Num(500) /\ Get(sessions[i], "kWh") = Milli(500)
  /\ \E i \in 1..Len(sessions) :
       /\ Get(sessions[i], "energy") = Num(0)
       /\ Truthy(Get(Get(sessions[i], "energyConsumption"), "total"))
       /\ Get(sessions[i], "kWh") = Num(0)
  /\ \E i \in 1..Len(sessions) :
       /\ ChosenWh(sessions[i]) = Milli(1234567) /\ Get(sessions[i], "kWh") = Milli(1235)

\* the request has a wrong method, no credential or a body that is not JSON
TurnedAway == up.method # "POST" \/ ~up.token \/ up.body = "invalid"

\* C22: a request with a wrong method, without configured credential or
\* with a body that is not valid JSON gets one error response and no
\* upstream request is ever sent for it.
C22_BadRequestSendsNothingUpstream ==
  TurnedAway =>
    /\ issued = EmptyBag /\ inflight = {}
    /\ pc \in {"start", "done"}
    /\ pc = "done" =>
         /\ Len(resp) = 1
         /\ resp[1].status \in {400, 405, 500}
         /\ DOMAIN resp[1].body = {"error"}

\* a POST with credential and a body that is not JSON was answered with 400
C22_Witness ==
  /\ up.method = "POST" /\ up.token /\ up.body = "invalid"
  /\ pc = "done"
  /\ resp = <<[status |-> 400, body |-> [error |-> "Invalid JSON body"]]>>
  /\ issued = EmptyBag

\* C23: no invocation sends two responses, and an invocation that is over,
\* every request it sent having completed, has sent one.
C23_ExactlyOneResponse ==
  /\ Len(resp) <= 1
  /\ (Over /\ inflight = {}) => Len(resp) = 1

\* the maps and the awaited requests a response of a batch acts on
BatchState ==
  [evseMap |-> evseMap, missingEvse |-> missingEvse, inflight |-> inflight]
HolderState == [userMap |-> userMap, tagToUserId |-> tagToUserId]

\* the tag map as a set of entries
TagEntries(st) == [st EXCEPT !.tagToUserId = SeqToSetOf(st.tagToUserId)]

\* C24: any two responses awaited together can settle in either order with
\* the same result: the same user map and tag map in a user or id-tag batch,
\* the same equipment map, missing set and follow-up requests in a batch of
\* per-charge-point walks; so the report cannot depend on the order.
C24_BatchOrderDoesNotMatter ==
  /\ pc \in Fanouts =>
       \A a, b \in inflight :
         TagEntries(FanAfter(pc, b, FanAfter(pc, a, HolderState)))
           = TagEntries(FanAfter(pc, a, FanAfter(pc, b, HolderState)))
  /\ pc = "cp-evses" =>
       \A a, b \in inflight :
         CpEvseAfter(b, CpEvseAfter(a, BatchState))
           = CpEvseAfter(a, CpEvseAfter(b, BatchState))

\* the sessions walk ended on the page cap: with a next link on its last
\* page, or before its first page under a cap of 0
Truncated ==
  LET n == RequestsTo("sessions")
  IN /\ pc \notin {"start", "sessions"}
     /\ Admitted
     /\ n = up.maxPages
     /\ \A k \in 1..n : Answer(up.site, Url("sessions", Null, SessionsPageAt(k))).st = "ok"
     /\ n >= 1 =>
          Truthy(PageNext(Answer(up.site, Url("sessions", Null, SessionsPageAt(n))).body))

\* C25: a sessions walk never goes past maxPages pages; when it ended on the
\* cap and no later listing failed, the run that is over has answered with
\* the success payload, which has count and data and nothing else, one
\* record for each session first served on the first maxPages pages; under
\* a cap of 0 that is count 0, and no request is sent.
C25_PageCapTruncatesQuietly ==
  /\ RequestsTo("sessions") <= up.maxPages
  /\ (Truncated /\ Over /\ ListingsFine) =>
       LET first == FirstDiscovered(ServedFrom(1, up.maxPages),
                                    Len(ServedFrom(1, up.maxPages)))
       IN /\ Succeeded
          /\ DOMAIN resp[1].body = {"count", "data"}
          /\ resp[1].body.count = Len(first)
          /\ Len(resp[1].body.data) = Len(first)
          /\ \A i \in 1..Len(first) :
               RecordOf(resp[1].body.data[i], Collected(up.variant, first[i]))
  /\ (up.maxPages = 0 /\ Admitted /\ Over) =>
       /\ issued = EmptyBag
       /\ resp = <<[status |-> 200, body |-> [count |-> 0, data |-> <<>>]]>>

\* an enriching handler under a cap of 2 reported the sessions of the first
\* two pages of a listing that goes on
C25_Witness ==
  /\ up.variant # "basic"
  /\ up.maxPages = 2
  /\ Truncated
  /\ Succeeded
  /\ Len(resp[1].body.data) >= 2
  /\ Truthy(PageNext(Answer(up.site, Url("sessions", Null, 2)).body))

====
